---- MODULE Spec2Model ----
(***************************************************************************)
(* A model of scraper.py: the price normaliser (clean_price), the field    *)
(* extractor (ProductScraper.parse_products_from_html) and the pagination  *)
(* loop (ProductScraper.scrape_site) with its collaborators (fetch,        *)
(* fetch_with_playwright, polite_sleep, write_csv, main).                  *)
(*                                                                         *)
(* Text is a sequence of one-character strings.  A URL is a sequence of    *)
(* tokens ("?" and "page=" are tokens of their own).  Python's None is the *)
(* string "None" where the other values are strings, and a record with a   *)
(* FALSE flag where they are records.                                      *)
(***************************************************************************)
EXTENDS Integers, Sequences, FiniteSets, TLC

None == "None"

\* ------------------------------------------------------------------ bounds
\* longest price text drawn for clean_price
MaxLen == 5
\* most item elements on a page drawn for parse_products_from_html
MaxItems == 2
\* largest page-count limit a configuration or --max-pages gives
MaxPages == 3

\* ------------------------------------------------------------------ text
Digits == {"0", "5"}
\* the characters price texts are drawn from; "nbsp" is U+00A0
Alphabet == Digits \cup {".", ",", "$", "nbsp"}

RECURSIVE TextsUpTo(_)
TextsUpTo(n) ==
    IF n = 0 THEN {<<>>}
    ELSE LET shorter == TextsUpTo(n - 1)
         IN  shorter \cup {Append(t, c) : t \in {s \in shorter : Len(s) = n - 1}, c \in Alphabet}

\* str.replace(old, new) for a one-character old and a one-character new
ReplaceChar(s, old, new) == [i \in 1..Len(s) |-> IF s[i] = old THEN new ELSE s[i]]
\* str.replace(old, "") for a one-character old
RemoveChar(s, old) == SelectSeq(s, LAMBDA c : c # old)
\* "x" in s
Contains(s, x) == \E i \in 1..Len(s) : s[i] = x
Count(s, x) == Cardinality({i \in 1..Len(s) : s[i] = x})

RECURSIVE LStrip(_)
LStrip(s) == IF Len(s) > 0 /\ s[1] \in {" ", "nbsp"} THEN LStrip(Tail(s)) ELSE s
RECURSIVE RStrip(_)
RStrip(s) ==
    IF Len(s) > 0 /\ s[Len(s)] \in {" ", "nbsp"} THEN RStrip(SubSeq(s, 1, Len(s) - 1)) ELSE s
\* str.strip(): U+00A0 is whitespace to Python
Strip(s) == LStrip(RStrip(s))

\* ------------------------------------------------------------------ clean_price
\* PRICE_SYM_RE.search(text).group(0): of the alternatives [$€£]|ARS|AR\$|USD
\* only "$" can occur in a text over Alphabet
PRICE_SYM_RE(text) == IF Contains(text, "$") THEN "$" ELSE None

\* NUM_RE.search(text) is not None: the text holds a digit
NUM_RE_matches(text) == \E i \in 1..Len(text) : text[i] \in Digits

\* NUM_RE.search(text).group(1): the first digit and the greedy run of digits,
\* '.' and ',' that follows it
NUM_RE(text) ==
    LET starts == {i \in 1..Len(text) : text[i] \in Digits}
    IN  IF starts = {} THEN <<>>
        ELSE LET b == CHOOSE i \in starts : \A j \in starts : i <= j
                 ends == {e \in b..Len(text) :
                             \A k \in b..e : text[k] \in Digits \cup {".", ","}}
                 e == CHOOSE x \in ends : \A y \in ends : y <= x
             IN  SubSeq(text, b, e)

DigitVal(c) == IF c = "5" THEN 5 ELSE 0

RECURSIVE ToInt(_)
ToInt(ds) == IF Len(ds) = 0 THEN 0
             ELSE 10 * ToInt(SubSeq(ds, 1, Len(ds) - 1)) + DigitVal(ds[Len(ds)])

\* Python's None where a float is expected
NoFloat == [ok |-> FALSE, m |-> 0, s |-> 0]

\* the float m / 10^s, with no trailing zero in the fraction
RECURSIVE Normal(_, _)
Normal(m, s) ==
    IF s > 0 /\ m % 10 = 0 THEN Normal(m \div 10, s - 1) ELSE [ok |-> TRUE, m |-> m, s |-> s]

\* float(raw) for a raw of digits and '.' that starts with a digit: a
\* ValueError (NoFloat here) with more than one '.'
Float(raw) ==
    IF Count(raw, ".") > 1 THEN NoFloat
    ELSE IF Count(raw, ".") = 0 THEN Normal(ToInt(raw), 0)
    ELSE LET p == CHOOSE i \in 1..Len(raw) : raw[i] = "."
         IN  Normal(ToInt(RemoveChar(raw, ".")), Len(raw) - p)

\* the separator later in the string is the decimal one, the other is stripped
BothSeparators_later(raw) ==
    LET seps == {i \in 1..Len(raw) : raw[i] \in {".", ","}}
        last == CHOOSE i \in seps : \A j \in seps : j <= i
    IN  IF raw[last] = "," THEN ReplaceChar(RemoveChar(raw, "."), ",", ".")
        ELSE RemoveChar(raw, ",")

\* the branch for a run with both ',' and '.'
BothSeparators(raw) == ReplaceChar(RemoveChar(raw, "."), ",", ".")

Canonical(raw) ==
    IF Contains(raw, ",") /\ Contains(raw, ".") THEN BothSeparators(raw)
    ELSE IF Contains(raw, ",") /\ ~Contains(raw, ".")
         THEN ReplaceChar(RemoveChar(raw, "."), ",", ".")
    ELSE RemoveChar(raw, ".")

clean_price(text) ==
    IF Len(text) = 0 THEN [currency |-> None, value |-> NoFloat]
    ELSE LET currency == PRICE_SYM_RE(text)
             spaced == ReplaceChar(text, "nbsp", " ")
         IN  IF ~NUM_RE_matches(spaced) THEN [currency |-> currency, value |-> NoFloat]
             ELSE [currency |-> currency, value |-> Float(Canonical(NUM_RE(spaced)))]

\* ------------------------------------------------------------------ parse_products_from_html
\* what select_one gives: an element with its text and one attribute, or nothing
Elem(text) == [found |-> TRUE, text |-> text, has_attr |-> FALSE, attr |-> <<>>]
ElemAttr(text, attr) == [found |-> TRUE, text |-> text, has_attr |-> TRUE, attr |-> attr]
NoElem == [found |-> FALSE, text |-> <<>>, has_attr |-> FALSE, attr |-> <<>>]

\* el.get_text(strip=True) and el.get_text(" ", strip=True) of an element
\* holding one text node
get_text(el) == Strip(el.text)
\* (el.get(attr) or "").strip()
get_attr(el) == IF el.has_attr THEN Strip(el.attr) ELSE <<>>

brand_text_of(item, site) ==
    IF site.brand_selector # None /\ item.brand.found THEN get_text(item.brand) ELSE <<>>

name_text_of(item, site) ==
    IF ~item.name.found THEN <<>>
    ELSE IF site.name_attr # None THEN get_attr(item.name) ELSE get_text(item.name)

price_text_of(item, site) ==
    IF site.price_attr # None THEN get_attr(item.price) ELSE get_text(item.price)

\* the dict appended to out: it has no "url" and no "price_value" key
make_record(site_key, page_url, item, site) ==
    LET brand_text == brand_text_of(item, site)
        name_text == name_text_of(item, site)
        full_name == Strip(brand_text \o <<" ">> \o name_text)
        ptext == price_text_of(item, site)
        cp == clean_price(ptext)
    IN  [site_key |-> site_key,
         source_url |-> page_url,
         brand |-> brand_text,
         name |-> IF Len(full_name) > 0 THEN full_name ELSE name_text,
         price_text |-> ptext,
         currency |-> IF cp.currency = None THEN "" ELSE cp.currency]

\* the items of the loop that reach out.append: those with a price element
item_kept(item) == item.price.found

RECURSIVE parse_items(_, _, _, _)
parse_items(site_key, items, page_url, site) ==
    IF Len(items) = 0 THEN <<>>
    ELSE LET rest == parse_items(site_key, Tail(items), page_url, site)
         IN  IF item_kept(Head(items))
             THEN <<make_record(site_key, page_url, Head(items), site)>> \o rest
             ELSE rest

parse_products_from_html(site_key, html, page_url, site) ==
    parse_items(site_key, html.items, page_url, site)

\* len(soup.select(site.item_selector)) and len(soup.select(site.price_selector))
cards_cnt(html) == Len(html.items)
prices_cnt(html) == Len(SelectSeq(html.items, LAMBDA it : it.price.found))

\* "$" in html: in an item's text or anywhere else in the markup
ElemHasDollar(el) == el.found /\ (Contains(el.text, "$") \/ Contains(el.attr, "$"))
HasDollar(html) ==
    \/ html.dollar
    \/ \E i \in 1..Len(html.items) :
          \/ ElemHasDollar(html.items[i].price)
          \/ ElemHasDollar(html.items[i].name)
          \/ ElemHasDollar(html.items[i].brand)

\* ------------------------------------------------------------------ inputs
NameElems == {NoElem, Elem(<<"n">>), ElemAttr(<<>>, <<"n", " ">>)}
BrandElems == {NoElem, Elem(<<"b">>)}
PriceElems == {NoElem, Elem(<<" ", "$", "5">>), Elem(<<"$">>), ElemAttr(<<"5", ",", "5">>, <<>>)}
Items == [brand : BrandElems, name : NameElems, price : PriceElems]

RECURSIVE ItemSeqsUpTo(_)
ItemSeqsUpTo(n) ==
    IF n = 0 THEN {<<>>}
    ELSE LET shorter == ItemSeqsUpTo(n - 1)
         IN  shorter \cup {Append(t, it) : t \in {s \in shorter : Len(s) = n - 1}, it \in Items}

NoLink == [found |-> FALSE, href |-> <<>>]
Link(href) == [found |-> TRUE, href |-> href]
Html(items) == [items |-> items, dollar |-> FALSE, next |-> NoLink]

ExtractSites == [brand_selector : {None, ".brand"}, name_attr : {None, "title"},
                 price_attr : {None, "content"}]

\* ------------------------------------------------------------------ scrape_site: inputs
\* start URLs: no query string; a query string without a page parameter; a
\* page parameter already in the URL (in capitals: the test lower-cases)
UrlPlain == <<"a">>
UrlQuery == <<"c", "?", "q=">>
UrlPaged == <<"b", "?", "Page=", "2">>
StartUrlLists == {<<UrlQuery>>, <<UrlPaged, UrlPlain>>, <<UrlPlain, UrlQuery>>}

\* None where an int is expected
NoInt == 0 - 1
\* Python's truth value of an Optional[int]
Truthy(n) == n # NoInt /\ n # 0

ArgsSet == [max_pages : {NoInt, 0, MaxPages - 1}, save_html : BOOLEAN]
SiteSet == [start_urls : StartUrlLists, next_page_selector : {None, "a.next"},
            max_pages : {NoInt, 1, MaxPages},
            brand_selector : {None}, name_attr : {None}, price_attr : {None}]

\* item elements of catalogue pages
Priced == [brand |-> NoElem, name |-> Elem(<<"n">>), price |-> Elem(<<"$", "5">>)]
Unpriced == [brand |-> NoElem, name |-> Elem(<<"n">>), price |-> NoElem]

\* what a static fetch can return
StaticPages ==
    {Html(<<>>),
     [items |-> <<>>, dollar |-> FALSE, next |-> Link(<<"?", "page=", "2">>)],
     Html(<<Priced, Priced, Priced>>),
     [items |-> <<Unpriced>>, dollar |-> TRUE, next |-> NoLink]}
\* what the browser can return after the page's scripts ran
RenderedPages == {Html(<<Priced>>)}

\* ------------------------------------------------------------------ scrape_site: helpers
\* url.lower() on the tokens
Lower(url) == [i \in 1..Len(url) |-> IF url[i] = "Page=" THEN "page=" ELSE url[i]]

\* the URL of page page_idx of base_url
paged_url_of(base_url, page_idx) ==
    LET sep == IF Contains(base_url, "?") THEN "&" ELSE "?"
    IN  IF ~Contains(Lower(base_url), "page=")
        THEN base_url \o <<sep, "page=", ToString(page_idx)>>
        ELSE base_url

\* urljoin(base, href) for an href that is a query string ("?...") or absolute
urljoin(base, href) ==
    IF Len(href) > 0 /\ href[1] = "?"
    THEN LET qs == {i \in 1..Len(base) : base[i] = "?"}
             cut == IF qs = {} THEN Len(base)
                    ELSE (CHOOSE i \in qs : \A j \in qs : i <= j) - 1
         IN  SubSeq(base, 1, cut) \o href
    ELSE href

\* the site's limit wins over --max-pages
max_pages_of_siteFirst(a, site) ==
    IF Truthy(site.max_pages) THEN site.max_pages
    ELSE IF Truthy(a.max_pages) THEN a.max_pages ELSE 1

\* self.args.max_pages or site.max_pages or 1
max_pages_of(a, site) ==
    IF Truthy(a.max_pages) THEN a.max_pages
    ELSE IF Truthy(site.max_pages) THEN site.max_pages ELSE 1

\* the structural probe alone, whatever --save-html says
need_js_of_probeOnly(a, site, html) == cards_cnt(html) > 0

\* need_js after the probe of the static markup
need_js_of(a, site, html) ==
    IF a.save_html THEN ~HasDollar(html)
    ELSE cards_cnt(html) > 0 /\ prices_cnt(html) = 0

\* the fallback on every page that gave nothing
next_fallback_applies_anyPage(rows_of_page, idx, site) ==
    Len(rows_of_page) = 0 /\ site.next_page_selector # None

\* not page_rows and page_idx == 1 and site.next_page_selector
next_fallback_applies(rows_of_page, idx, site) ==
    Len(rows_of_page) = 0 /\ idx = 1 /\ site.next_page_selector # None

VARIABLES price_text, price_called, price_result,
          parse_html, parse_site, parse_called, parse_out,
          pc, args, site, base_idx, max_pages, page_idx, paged_url, html,
          page_rows, rows, csv, trace

price_vars == <<price_text, price_called, price_result>>
parse_vars == <<parse_html, parse_site, parse_called, parse_out>>
loop_vars == <<base_idx, max_pages, page_idx, paged_url, html, page_rows>>
crawl_vars == <<pc, args, site, loop_vars, rows, csv, trace>>
vars == <<price_vars, parse_vars, crawl_vars>>

IdlePrice == /\ price_text = <<>>
             /\ price_called = FALSE
             /\ price_result = [currency |-> None, value |-> NoFloat]

IdleParse == /\ parse_html = Html(<<>>)
             /\ parse_site = [brand_selector |-> None, name_attr |-> None, price_attr |-> None]
             /\ parse_called = FALSE
             /\ parse_out = <<>>

NoArgs == [max_pages |-> NoInt, save_html |-> FALSE]
NoSite == [start_urls |-> <<>>, next_page_selector |-> None, max_pages |-> NoInt,
           brand_selector |-> None, name_attr |-> None, price_attr |-> None]
NoCsv == [created |-> FALSE, header |-> {}, data |-> <<>>]

IdleCrawl == /\ pc = "idle"
             /\ args = NoArgs
             /\ site = NoSite
             /\ base_idx = 0 /\ max_pages = 0 /\ page_idx = 0
             /\ paged_url = <<>> /\ html = Html(<<>>)
             /\ page_rows = <<>> /\ rows = <<>>
             /\ csv = NoCsv
             /\ trace = <<>>

\* ------------------------------------------------------------------ SpecPrice
InitPrice == /\ price_text \in TextsUpTo(MaxLen)
             /\ price_called = FALSE
             /\ price_result = [currency |-> None, value |-> NoFloat]
             /\ IdleParse /\ IdleCrawl

CleanPrice == /\ ~price_called
              /\ price_called' = TRUE
              /\ price_result' = clean_price(price_text)
              /\ UNCHANGED <<price_text, parse_vars, crawl_vars>>

NextPrice == CleanPrice

SpecPrice == InitPrice /\ [][NextPrice]_vars

\* ------------------------------------------------------------------ SpecParse
InitParse == /\ parse_html \in {Html(items) : items \in ItemSeqsUpTo(MaxItems)}
             /\ parse_site \in ExtractSites
             /\ parse_called = FALSE
             /\ parse_out = <<>>
             /\ IdlePrice /\ IdleCrawl

ParseProducts ==
    /\ ~parse_called
    /\ parse_called' = TRUE
    /\ parse_out' = parse_products_from_html("s", parse_html, <<"a">>, parse_site)
    /\ UNCHANGED <<parse_html, parse_site, price_vars, crawl_vars>>

NextParse == ParseProducts

SpecParse == InitParse /\ [][NextParse]_vars

\* ------------------------------------------------------------------ Spec: main and scrape_site
\* one call of a collaborator, or one rows.extend, in the order they happen
\* (u, idx: the start URL and the page index; gap: the markup a fetch returned
\* has item matches and no price match; n: the records extracted so far from
\* the page)
Event(op, url, ok, n, markup) ==
    [op |-> op, u |-> base_idx, idx |-> page_idx, url |-> url, ok |-> ok, n |-> n,
     gap |-> cards_cnt(markup) > 0 /\ prices_cnt(markup) = 0]

\* what self.fetch(url) can come to: robots.txt denies, the status is >= 400,
\* requests raises RequestException (all three return None), or resp.text
FetchOutcomes ==
    {[why |-> w, ok |-> FALSE, html |-> Html(<<>>)] : w \in {"robots", "status", "exception"}}
        \cup {[why |-> "text", ok |-> TRUE, html |-> h] : h \in StaticPages}

\* what fetch_with_playwright(url) can come to: None without playwright, the
\* rendered content, or an exception of the browser (nothing catches it)
RenderOutcomes ==
    {[why |-> "not_installed", html |-> Html(<<>>)], [why |-> "raises", html |-> Html(<<>>)]}
        \cup {[why |-> "content", html |-> h] : h \in RenderedPages}

BaseCols == {"site_key", "source_url", "url", "brand", "name", "currency", "price_value",
             "price_text"}

\* csv.DictWriter.writerows: a key the dict lacks is written as ""
CsvRow(r) == [c \in BaseCols |-> IF c \in DOMAIN r THEN r[c] ELSE ""]

write_csv(rs) ==
    IF Len(rs) = 0 THEN [created |-> TRUE, header |-> {}, data |-> <<>>]
    ELSE [created |-> TRUE, header |-> BaseCols, data |-> [i \in 1..Len(rs) |-> CsvRow(rs[i])]]

Init == /\ pc = "start"
        /\ args = NoArgs
        /\ site = NoSite
        /\ base_idx = 0 /\ max_pages = 0 /\ page_idx = 0
        /\ paged_url = <<>> /\ html = Html(<<>>)
        /\ page_rows = <<>> /\ rows = <<>>
        /\ csv = [created |-> FALSE, header |-> {}, data |-> <<>>]
        /\ trace = <<>>
        /\ IdlePrice /\ IdleParse

\* ProductScraper(args.config, args): every entry of the YAML becomes a SiteConfig
Construct ==
    /\ pc = "start"
    /\ \E a \in ArgsSet, s \in SiteSet :
          /\ args' = a
          /\ site' = s
          /\ pc' = "main"
    /\ UNCHANGED <<loop_vars, rows, csv, trace, price_vars, parse_vars>>

\* SiteConfig(**v) raises TypeError for an entry lacking a required field
ConstructRaises ==
    /\ pc = "start"
    /\ pc' = "crashed"
    /\ UNCHANGED <<args, site, loop_vars, rows, csv, trace, price_vars, parse_vars>>

\* main: the site key is one of the configuration, scrape_site starts
MainScrape ==
    /\ pc = "main"
    /\ pc' = "loop_url"
    /\ UNCHANGED <<args, site, loop_vars, rows, csv, trace, price_vars, parse_vars>>

\* main: the site key is unknown, an error is logged and main returns
MainUnknownSite ==
    /\ pc = "main"
    /\ pc' = "done"
    /\ UNCHANGED <<args, site, loop_vars, rows, csv, trace, price_vars, parse_vars>>

\* for base_url in site.start_urls: the next start URL
NextStartUrl ==
    /\ pc = "loop_url"
    /\ base_idx < Len(site.start_urls)
    /\ base_idx' = base_idx + 1
    /\ max_pages' = max_pages_of(args, site)
    /\ page_idx' = 1
    /\ pc' = "loop_page"
    /\ UNCHANGED <<args, site, paged_url, html, page_rows, rows, csv, trace,
                   price_vars, parse_vars>>

\* the start URLs are exhausted: return rows
ReturnRows ==
    /\ pc = "loop_url"
    /\ base_idx >= Len(site.start_urls)
    /\ pc' = "write"
    /\ UNCHANGED <<args, site, loop_vars, rows, csv, trace, price_vars, parse_vars>>

\* range(1, max_pages + 1) is exhausted
PagesExhausted ==
    /\ pc = "loop_page"
    /\ page_idx > max_pages
    /\ pc' = "loop_url"
    /\ UNCHANGED <<args, site, loop_vars, rows, csv, trace, price_vars, parse_vars>>

\* the page is skipped and the loop goes on with the next page index
FetchNone_continue ==
    /\ pc' = "loop_page"
    /\ page_idx' = page_idx + 1

\* if not html: break
FetchNone ==
    /\ pc' = "loop_url"
    /\ page_idx' = page_idx

\* html = self.fetch(paged_url)
FetchPage ==
    /\ pc = "loop_page"
    /\ page_idx <= max_pages
    /\ LET url == paged_url_of(site.start_urls[base_idx], page_idx)
       IN  /\ paged_url' = url
           /\ \E got \in FetchOutcomes :
                 /\ trace' = Append(trace, Event("fetch", url, got.ok, 0, got.html))
                 /\ IF got.ok
                    THEN /\ html' = got.html
                         /\ pc' = "probe"
                         /\ page_idx' = page_idx
                    ELSE /\ html' = html
                         /\ FetchNone
    /\ UNCHANGED <<args, site, base_idx, max_pages, page_rows, rows, csv,
                   price_vars, parse_vars>>

\* need_js is False: no browser
ProbeStatic ==
    /\ pc = "probe"
    /\ ~need_js_of(args, site, html)
    /\ pc' = "parse"
    /\ UNCHANGED <<args, site, loop_vars, rows, csv, trace, price_vars, parse_vars>>

\* need_js is True: html_js = fetch_with_playwright(paged_url); if html_js: html = html_js
ProbeRender ==
    /\ pc = "probe"
    /\ need_js_of(args, site, html)
    /\ \E got \in RenderOutcomes :
          /\ trace' = Append(trace, Event("render", paged_url, got.why # "raises", 0, got.html))
          /\ html' = IF got.why = "content" THEN got.html ELSE html
          /\ pc' = IF got.why = "raises" THEN "crashed" ELSE "parse"
    /\ UNCHANGED <<args, site, base_idx, max_pages, page_idx, paged_url, page_rows,
                   rows, csv, price_vars, parse_vars>>

\* rows.extend(page_rows); if not page_rows: break; otherwise on to polite_sleep
Accumulate(pr, events) ==
    /\ page_rows' = pr
    /\ rows' = rows \o pr
    /\ trace' = trace \o events \o <<Event("extend", paged_url, TRUE, Len(pr), Html(<<>>))>>
    /\ pc' = IF Len(pr) = 0 THEN "loop_url" ELSE "sleep"

\* page_rows = self.parse_products_from_html(...), no next-link fallback
ParsePage ==
    /\ pc = "parse"
    /\ LET pr == parse_products_from_html("s", html, paged_url, site)
       IN  /\ ~(next_fallback_applies(pr, page_idx, site)
                   /\ html.next.found /\ Len(html.next.href) > 0)
           /\ Accumulate(pr, <<>>)
    /\ UNCHANGED <<args, site, base_idx, max_pages, page_idx, paged_url, html, csv,
                   price_vars, parse_vars>>

\* the page gave nothing and holds a next link: html2 = self.fetch(next_url),
\* and page_rows are those of html2 when it was fetched
ParsePageNextLink ==
    /\ pc = "parse"
    /\ LET pr == parse_products_from_html("s", html, paged_url, site)
           next_url == urljoin(paged_url, html.next.href)
       IN  /\ next_fallback_applies(pr, page_idx, site)
           /\ html.next.found /\ Len(html.next.href) > 0
           /\ \E got \in FetchOutcomes :
                 Accumulate(IF got.ok
                            THEN parse_products_from_html("s", got.html, next_url, site)
                            ELSE pr,
                            <<Event("fetch_next", next_url, got.ok, Len(pr), got.html)>>)
    /\ UNCHANGED <<args, site, base_idx, max_pages, page_idx, paged_url, html, csv,
                   price_vars, parse_vars>>

\* self.polite_sleep() at the end of the loop body (it returns at once when the
\* delay range is 0 0), then the next page index
polite_sleep ==
    /\ pc = "sleep"
    /\ trace' = Append(trace, Event("sleep", <<>>, TRUE, 0, Html(<<>>)))
    /\ page_idx' = page_idx + 1
    /\ pc' = "loop_page"
    /\ UNCHANGED <<args, site, base_idx, max_pages, paged_url, html, page_rows, rows,
                   csv, price_vars, parse_vars>>

\* main: scraper.write_csv(site_key, rows)
WriteCsv ==
    /\ pc = "write"
    /\ csv' = write_csv(rows)
    /\ pc' = "done"
    /\ UNCHANGED <<args, site, loop_vars, rows, trace, price_vars, parse_vars>>

Next == \/ Construct \/ ConstructRaises \/ MainScrape \/ MainUnknownSite
        \/ NextStartUrl \/ ReturnRows \/ PagesExhausted \/ FetchPage
        \/ ProbeStatic \/ ProbeRender \/ ParsePage \/ ParsePageNextLink
        \/ polite_sleep \/ WriteCsv

Spec == Init /\ [][Next]_vars

\* ------------------------------------------------------------------ claims: scrape_site
StartUrls == 1..Len(site.start_urls)
EventsOf(u, ops) == {i \in 1..Len(trace) : trace[i].u = u /\ trace[i].op \in ops}
\* the calls of self.fetch for start URL u: for a page index, and all of them
PageFetches(u) == EventsOf(u, {"fetch"})
AllFetches(u) == EventsOf(u, {"fetch", "fetch_next"})
\* the numbers of records accumulated for the successive page indices of u
Yields(u) ==
    LET ext == SelectSeq(trace, LAMBDA e : e.u = u /\ e.op = "extend")
    IN  [k \in 1..Len(ext) |-> ext[k].n]
RECURSIVE SumSeq(_)
SumSeq(q) == IF Len(q) = 0 THEN 0 ELSE Head(q) + SumSeq(Tail(q))
\* the pagination of start URL u has ended, and not by an exception
Finished(u) == u < base_idx \/ (u = base_idx /\ pc \in {"loop_url", "write", "done"})
FetchFailed(u) == \E i \in AllFetches(u) : ~trace[i].ok
ParamBased(u) == ~Contains(Lower(site.start_urls[u]), "page=")
\* the limit as documented: a non-zero --max-pages, else the site's non-zero
\* max_pages, else 1
EffectiveLimit ==
    IF args.max_pages \notin {NoInt, 0} THEN args.max_pages
    ELSE IF site.max_pages \notin {NoInt, 0} THEN site.max_pages
    ELSE 1
\* the records a fetched page's own markup gave: its extend event's n, or the
\* n of the next-link fetch that its empty extraction set off
ThreeThenZero(u) ==
    /\ Finished(u) /\ ~FetchFailed(u) /\ EventsOf(u, {"fetch_next"}) = {}
    /\ Len(Yields(u)) >= 1 /\ Yields(u)[1] = 3
    /\ Len(Yields(u)) >= 2 => Yields(u)[2] = 0

\* C1 as stated: for a start URL without a page parameter, pagination stops
\* exactly when a fetched page yields zero extracted records (so no page index
\* is fetched after a page whose extraction was empty), and a site whose pages
\* yield 3 and then 0 records gives exactly 3 records and 2 fetch calls.
C1_StopsAtEmptyPageTwoFetches ==
    \A u \in 1..base_idx :
        ParamBased(u) =>
            /\ \A i \in EventsOf(u, {"fetch_next"}) :
                   \A j \in PageFetches(u) : j < i
            /\ ThreeThenZero(u) =>
                   Cardinality(AllFetches(u)) = 2 /\ SumSeq(Yields(u)) = 3

\* C1 amended: for a start URL without a page parameter, at most
\* EffectiveLimit page indices are fetched (a non-zero --max-pages, else the
\* site's non-zero max_pages, else 1); a page index whose accumulated records
\* (after the page-1 next-link fallback) are empty is the last one fetched;
\* pagination that ends below the limit without a fetch failure ended on such
\* a page; and with a limit of at least 2, pages yielding 3 and then 0 records
\* give exactly 3 records and 2 fetch calls.
C1_StopsAtEmptyOrLimit ==
    \A u \in 1..base_idx :
        ParamBased(u) =>
            LET y == Yields(u)
                fetched == Cardinality(PageFetches(u))
            IN  /\ fetched <= EffectiveLimit
                /\ \A k \in 1..Len(y) :
                       y[k] = 0 => k = Len(y) /\ fetched = k /\ (u = base_idx => pc # "sleep")
                /\ (Finished(u) /\ ~FetchFailed(u) /\ fetched < EffectiveLimit)
                       => Len(y) > 0 /\ y[Len(y)] = 0
                /\ (ThreeThenZero(u) /\ EffectiveLimit >= 2)
                       => Cardinality(AllFetches(u)) = 2 /\ y = <<3, 0>>
                /\ Len(rows) >= SumSeq(y)

C1_Witness ==
    \E u \in 1..base_idx :
        /\ ParamBased(u) /\ Finished(u)
        /\ Yields(u) = <<3, 0>>
        /\ Cardinality(AllFetches(u)) = 2
        /\ Len(rows) >= 3

\* the probe of the page fetched by event i has run
Probed(i) == ~(i = Len(trace) /\ pc = "probe")
\* the dynamic re-fetches of the page fetched by event i
RendersOf(i) ==
    {j \in 1..Len(trace) :
        trace[j].op = "render" /\ trace[j].u = trace[i].u /\ trace[j].idx = trace[i].idx}
RenderedOnceBeforeExtraction(i) ==
    IF trace[i].gap
    THEN RendersOf(i) = {i + 1} /\ trace[i + 1].url = trace[i].url
    ELSE RendersOf(i) = {}

IsFetch(e) == e.op \in {"fetch", "fetch_next"}

\* C3: within one start URL polite_sleep is invoked between every two
\* successive fetch calls (the next-link fetch included), and the call before
\* the first fetch of a start URL is never polite_sleep.
C3_SleepBetweenFetchesOnly ==
    \A j \in 1..Len(trace) :
        IsFetch(trace[j]) =>
            IF \E i \in 1..(j - 1) : IsFetch(trace[i]) /\ trace[i].u = trace[j].u
            THEN LET i == CHOOSE x \in 1..(j - 1) :
                              /\ IsFetch(trace[x]) /\ trace[x].u = trace[j].u
                              /\ \A z \in (x + 1)..(j - 1) : ~IsFetch(trace[z])
                 IN  \E z \in (i + 1)..(j - 1) : trace[z].op = "sleep"
            ELSE j = 1 \/ trace[j - 1].op # "sleep"

\* C4: a failed fetch ends the pagination of its start URL: no fetch, render
\* or sleep follows it for that start URL, and the records accumulated so far
\* stay in rows and reach the CSV.
C4_FetchFailureEndsStartUrl ==
    /\ \A i \in 1..Len(trace) :
          (IsFetch(trace[i]) /\ ~trace[i].ok) =>
              /\ \A j \in (i + 1)..Len(trace) :
                     trace[j].u = trace[i].u => trace[j].op = "extend" /\ j = i + 1
              /\ (trace[i].u = base_idx /\ pc # "crashed") => pc \in {"loop_url", "write", "done"}
              /\ Len(rows) >= SumSeq(Yields(trace[i].u))
    /\ Len(rows) = SumSeq([u \in 1..base_idx |-> SumSeq(Yields(u))])
    /\ (pc = "done" /\ csv.created) => Len(csv.data) = Len(rows)

C4_Witness ==
    /\ pc = "done" /\ csv.created
    /\ \E i \in 1..Len(trace) :
          /\ trace[i].op = "fetch" /\ ~trace[i].ok /\ trace[i].idx = 2
          /\ Len(csv.data) >= 3

\* C5: whatever goes wrong for one start URL, every configured start URL is
\* paginated and the rows are written.
C5_SiblingStartUrlsProcessed ==
    (pc \in {"done", "crashed"} /\ base_idx >= 1) =>
        /\ \A u \in StartUrls : AllFetches(u) # {}
        /\ csv.created

\* C9: the next-link fetch happens only on page index 1, only after an empty
\* extraction and with a next-page selector, at most once per start URL; a
\* start URL has at most EffectiveLimit + 1 fetch calls.
C9_NextLinkOnlyOnFirstPage ==
    /\ \A i \in 1..Len(trace) :
          trace[i].op = "fetch_next" =>
              trace[i].idx = 1 /\ trace[i].n = 0 /\ site.next_page_selector # None
    /\ \A u \in 1..base_idx :
          /\ Cardinality(EventsOf(u, {"fetch_next"})) <= 1
          /\ Cardinality(AllFetches(u)) <= EffectiveLimit + 1

C9_Witness ==
    \E u \in 1..base_idx :
        /\ EventsOf(u, {"fetch_next"}) # {}
        /\ EffectiveLimit >= 2
        /\ Cardinality(AllFetches(u)) = EffectiveLimit + 1

\* C10: the URLs fetched for the successive page indices of one start URL are
\* pairwise distinct.
C10_PageUrlsDistinct ==
    \A u \in 1..base_idx :
        \A i, j \in PageFetches(u) : i # j => trace[i].url # trace[j].url

\* ------------------------------------------------------------------ claims: clean_price
\* the numeric run clean_price works on
Run == NUM_RE(ReplaceChar(price_text, "nbsp", " "))
HasBoth == Contains(Run, ",") /\ Contains(Run, ".")
WellFormedRun ==
    \A i \in 1..Len(Run) : Run[i] \in {".", ","} => (i < Len(Run) /\ Run[i + 1] \in Digits)

\* the digits of the run with the decimal point at position p of the run
DecimalAt(run, p) ==
    LET digits == SelectSeq(run, LAMBDA c : c \in Digits)
        after == SelectSeq(SubSeq(run, p + 1, Len(run)), LAMBDA c : c \in Digits)
    IN  Normal(ToInt(digits), Len(after))

\* C6 as stated: with both separators in the numeric run, the separator that
\* appears later is the decimal separator and the other one is stripped.
\* (Stated for the runs that are written as a number: every separator is
\* followed by a digit.)
C6_LaterSeparatorIsDecimal ==
    (price_called /\ HasBoth /\ WellFormedRun)
        => price_result.value = Float(BothSeparators_later(Run))

\* C6 amended: with both separators in the numeric run, ',' is the decimal
\* separator and every '.' is stripped, whichever comes later: the value has the
\* decimal point where the single ',' stands, and there is no value with more
\* than one ','.
C6_CommaIsDecimal ==
    (price_called /\ HasBoth) =>
        IF Count(Run, ",") = 1
        THEN price_result.value = DecimalAt(Run, CHOOSE i \in 1..Len(Run) : Run[i] = ",")
        ELSE price_result.value = NoFloat

\* a price such as "5,0.5": both separators, the '.' later, read as 5.05
C6_Witness ==
    /\ price_called /\ HasBoth
    /\ Run[Len(Run) - 1] = "." /\ Count(Run, ",") = 1
    /\ price_result.value.ok

\* ------------------------------------------------------------------ claims: parse_products_from_html
\* C7: a record is returned for an item only if the item matched both the name
\* selector and the price selector, so there are no more records than such items.
C7_RecordOnlyWithNameAndPrice ==
    parse_called =>
        Len(parse_out) <= Cardinality({i \in 1..Len(parse_html.items) :
            parse_html.items[i].name.found /\ parse_html.items[i].price.found})

\* C8: every record carries the price text and a price value, and the price
\* value is None exactly when clean_price gives no number for that text.
C8_RecordCarriesPriceValue ==
    parse_called =>
        \A i \in 1..Len(parse_out) :
            /\ "price_text" \in DOMAIN parse_out[i]
            /\ "price_value" \in DOMAIN parse_out[i]
            /\ (parse_out[i].price_value = NoFloat)
                   <=> ~clean_price(parse_out[i].price_text).value.ok
====
